---- MODULE Spec2Model ----
(***************************************************************************)
(* Model of difeth: the retried fetch (crawl.py), the pickle caches        *)
(* (cache.py) and the crawl-and-diff pipeline (crawl.py).                  *)
(***************************************************************************)
EXTENDS Integers, Sequences, FiniteSets, TLC

VARIABLES
    \* ---- fetch(url, nb_attempts), crawl.py:31-54
    fpc,          \* "idle" | "loop" | "returned" | "raised"
    nb_attempts,  \* the nb_attempts argument of the running call
    attempt,      \* number of completed iterations of the for loop
    requests,     \* number of SESSION.get calls issued by the running call
    outs,         \* the outcome of each SESSION.get call, in order
    fres,         \* the value returned by fetch
    \* ---- the pickle.d directory and cache_func_and_arg, cache.py:71-88
    file,         \* cache key -> the pickle file of that key
    lock,         \* process -> whether its copy of _LOCK is held
    cc,           \* process -> the frame of its running new_func call
    hist,         \* cache key -> counters of what happened to the key
    calls,        \* process -> number of new_func calls it has started
    run,          \* number of times the program has been restarted
    nfail,        \* number of fetches of a cached function that returned ""
    \* ---- pickle_cache_witness, cache.py:13-46
    wfile,        \* the pickle file var_p
    wstat,        \* counters over the calls of pickle_cache_witness
    wlast,        \* the arguments and the effects of the latest call
    \* ---- the diff store, crawl.py:193-212
    texts,        \* identifier -> the source text extracted for it
    store,        \* reference identifier -> its directory under folder
    wcalls,       \* the (ref_addr, sim_addr) pairs write_diff was called for
    wd,           \* calls of write_diff per pair, and the latest call's arguments
    \* ---- main and process_addr, crawl.py:215-301
    parallel,     \* the parallel argument of main
    mpc,          \* where the main process is
    batch,        \* number of calls of main that have returned
    page,         \* the page number i of fetch_addresses_verified
    total_page,   \* total_page, as nb_verified returned it
    verified,     \* verified_addresses
    addresses,    \* the slice of the sorted identifiers main processes
    nexttask,     \* index in addresses of the next identifier to hand out
    disc,         \* the fetches of the running fetch_addresses_verified call
    pa,           \* process -> the frame of its running process_addr call
    plog,         \* reference identifier -> what its process_addr call did
    \* ---- copy_diffs, copy_diffs.py:5-15 and analyze_diffs.py:103-115
    sel,          \* the file names listed in the selection file, in order
    cpos,         \* number of lines of the selection file already copied
    out           \* file name in output_dir -> the file of that name

fetchVars == <<fpc, nb_attempts, attempt, requests, outs, fres>>
cacheVars == <<file, lock, cc, hist, calls, run, nfail>>
witnessVars == <<wfile, wstat, wlast>>
storeVars == <<texts, store, wcalls, wd>>

\* What the steps of a cached call leave alone.
mainVars == <<parallel, mpc, batch, page, total_page, verified, addresses,
              nexttask, disc>>
pipeVars == <<mainVars, pa, plog>>
copyVars == <<sel, cpos, out>>
otherVars == <<fetchVars, witnessVars, storeVars, pipeVars, copyVars>>

vars == <<fetchVars, cacheVars, witnessVars, storeVars, pipeVars, copyVars>>

\* ------------------------------------------------------------------ bounds
\* Largest nb_attempts drawn for a call of fetch (5 is the default argument).
MaxAttempts == 5

\* Calls of a cached function one process makes in the cache specifications.
MaxCalls == 2

\* Calls the single process makes in the sequential cache specification.
MaxSeqCalls == 4

\* Restarts of the program in the sequential cache specification.
MaxRuns == 2

\* Longest value a computation cached by pickle_cache_witness returns.
MaxLen == 2

\* Longest source text, in characters, handed to write_diff.
MaxTextLen == 2

\* Calls of write_diff made for one pair of texts.
MaxWrites == 2

\* Fetches of one execution of the pipeline that exhaust their attempts.
MaxFailedFetches == 1

\* Lines of the selection file copy_diffs reads.
MaxList == 3

\* Calls of write_diff for one pair of identifiers with varying texts.
MaxRewrites == 3

\* Identifiers one call of main is asked to process (STEP of __main__).
STEP == 3

\* Calls of main the program makes, over consecutive ranges.
NbBatches == 2

\* ---------------------------------------------------------------- registry
\* The remote registry the run crawls.  Identifiers are numbered so that the
\* sorted order of the identifiers is the order of the numbers.
Listed == {1, 2, 3, 4}      \* identifiers the verified-contracts pages list
Outsiders == {9}            \* identifiers no listing page mentions
NoEditor == <<"<no editor>">>

\* The text of the element with id "editor" on an identifier's page.
EditorText(a) ==
    CASE a = 1 -> <<"a", "\r", "\n">>
      [] a = 2 -> <<"a", "\n", "b", "\n">>
      [] a = 3 -> <<"a", "\n">>
      [] a = 4 -> <<"b">>
      [] OTHER -> NoEditor

\* ------------------------------------------------------------------- fetch
NoRes == "<none>"

\* Response bodies a successful request may carry (an empty body included).
Bodies == {"", "page"}

\* What one call of _fetch() can do: return request.text, or raise.
\* HTTPError is raised by request.raise_for_status() on a 4xx/5xx status.
OkOutcomes == {[kind |-> "ok", text |-> b] : b \in Bodies}
ErrOutcomes == {[kind |-> "HTTPError", text |-> NoRes],
                [kind |-> "ConnectionError", text |-> NoRes],
                [kind |-> "OpenSSL.SSL.Error", text |-> NoRes]}
Outcomes == OkOutcomes \cup ErrOutcomes

\* The exception classes of requests.exceptions deriving from RequestException.
RequestExceptions == {"HTTPError", "ConnectionError"}

CaughtOnlySSL(exc) == exc = "OpenSSL.SSL.Error"

\* except (OpenSSL.SSL.Error, requests.exceptions.RequestException)
Caught(exc) == exc = "OpenSSL.SSL.Error" \/ exc \in RequestExceptions

RangeOffByOne(i, n) == i <= n

\* `for _ in range(nb_attempts)`: whether iteration number i (from 0) runs.
InRange(i, n) == i < n

FetchIdle ==
    /\ fpc = "idle" /\ nb_attempts = 0 /\ attempt = 0
    /\ requests = 0 /\ outs = <<>> /\ fres = NoRes

\* One iteration of `for _ in range(nb_attempts)`: one _fetch() call.
FetchAttempt(o) ==
    /\ fpc = "loop"
    /\ InRange(attempt, nb_attempts)
    /\ requests' = requests + 1
    /\ outs' = Append(outs, o)
    /\ IF o.kind = "ok"
         THEN /\ fpc' = "returned"
              /\ fres' = o.text
              /\ attempt' = attempt
         ELSE IF Caught(o.kind)
           THEN /\ fpc' = "loop"
                /\ attempt' = attempt + 1
                /\ fres' = fres
           ELSE /\ fpc' = "raised"
                /\ attempt' = attempt
                /\ fres' = fres
    /\ UNCHANGED <<nb_attempts, cacheVars, witnessVars, copyVars, storeVars, pipeVars>>

\* The loop is exhausted: logging.error(...); return "".
FetchExhausted ==
    /\ fpc = "loop"
    /\ ~InRange(attempt, nb_attempts)
    /\ fpc' = "returned"
    /\ fres' = ""
    /\ UNCHANGED <<nb_attempts, attempt, requests, outs, cacheVars,
                   witnessVars, copyVars, storeVars, pipeVars>>

\* ------------------------------------------------------------------- pages
\* A URL is the endpoint and the page number or identifier it names.
IndexUrl == [u |-> "index", n |-> 0]            \* VERIFIED_URL
PageUrl(i) == [u |-> "page", n |-> i]           \* VERIFIED_URL + "/{}"
SimilarUrl(a) == [u |-> "similar", n |-> a]     \* find-similiar-contracts?a=
CodeUrl(a) == [u |-> "code", n |-> a]           \* address/{}#code

\* Number of listing pages the index page reports.
TotalPage == 2

\* The address-tag elements of listing page i.
PageTags(i) == CASE i = 0 -> {1, 2} [] i = 1 -> {3, 4} [] OTHER -> {}

\* The address-tag elements of the similar-contracts page of identifier a.
SimilarTags(a) ==
    CASE a = 1 -> {1, 2, 3, 4, 9}
      [] a = 2 -> {}
      [] a = 3 -> {1}
      [] a = 4 -> {3}
      [] OTHER -> {}

NoPaging == <<>>

\* What the document extractor finds in a response body: the text of the
\* element with id "editor", the texts of the elements of class "address-tag"
\* and the numbers of the paging panel.
EmptyDoc == [editor |-> NoEditor, tags |-> {}, paging |-> NoPaging]

Doc(url) ==
    CASE url.u = "index" -> [EmptyDoc EXCEPT !.paging = <<1, TotalPage>>]
      [] url.u = "page" -> [EmptyDoc EXCEPT !.tags = PageTags(url.n)]
      [] url.u = "similar" -> [EmptyDoc EXCEPT !.tags = SimilarTags(url.n)]
      [] url.u = "code" -> [EmptyDoc EXCEPT !.editor = EditorText(url.n)]

\* What fetch(url) can return to its caller: the page, or "" once every
\* attempt has failed (FetchExhausted); BeautifulSoup("") holds no element.
FetchResults(url) == {Doc(url), EmptyDoc}

\* ------------------------------------------------------------------- texts
RECURSIVE RemoveCR(_)
\* str.replace("\r", "")
RemoveCR(s) ==
    IF s = <<>> THEN <<>>
    ELSE IF Head(s) = "\r" THEN RemoveCR(Tail(s))
    ELSE <<Head(s)>> \o RemoveCR(Tail(s))

RECURSIVE SplitLines(_)
\* str.splitlines(keepends=True): a line ends after "\n", after "\r\n" and
\* after a "\r" that no "\n" follows.
SplitLines(s) ==
    IF s = <<>> THEN <<>>
    ELSE LET ends == {i \in 1..Len(s) :
                        \/ s[i] = "\n"
                        \/ s[i] = "\r" /\ (i = Len(s) \/ s[i + 1] # "\n")}
             e == IF ends = {} THEN Len(s)
                  ELSE CHOOSE i \in ends : \A j \in ends : i <= j
         IN <<SubSeq(s, 1, e)>> \o SplitLines(SubSeq(s, e + 1, Len(s)))

RECURSIVE Flatten(_)
\* ''.join(lines)
Flatten(ls) == IF ls = <<>> THEN <<>> ELSE Head(ls) \o Flatten(Tail(ls))

\* ------------------------------------------------------------- diff engine
\* difflib.SequenceMatcher.find_longest_match on a[alo:ahi], b[blo:bhi]
\* (indexes from 0): the longest common block, the one starting earliest in
\* a, and among those the one starting earliest in b.
FindLongestMatch(a, b, alo, ahi, blo, bhi) ==
    LET C == {c \in (alo..(ahi - 1)) \X (blo..(bhi - 1)) \X (1..(ahi - alo)) :
                /\ c[1] + c[3] <= ahi
                /\ c[2] + c[3] <= bhi
                /\ SubSeq(a, c[1] + 1, c[1] + c[3]) = SubSeq(b, c[2] + 1, c[2] + c[3])}
        Before(c, d) == \/ c[3] > d[3]
                        \/ c[3] = d[3] /\ c[1] < d[1]
                        \/ c[3] = d[3] /\ c[1] = d[1] /\ c[2] <= d[2]
    IN IF C = {} THEN <<alo, blo, 0>>
       ELSE CHOOSE c \in C : \A d \in C : Before(c, d)

RECURSIVE MatchingBlocks(_, _, _, _, _, _)
\* difflib.SequenceMatcher.get_matching_blocks, without the closing sentinel.
MatchingBlocks(a, b, alo, ahi, blo, bhi) ==
    LET m == FindLongestMatch(a, b, alo, ahi, blo, bhi)
        i == m[1]
        j == m[2]
        k == m[3]
    IN IF k = 0 THEN <<>>
       ELSE (IF alo < i /\ blo < j
               THEN MatchingBlocks(a, b, alo, i, blo, j) ELSE <<>>)
            \o <<m>> \o
            (IF i + k < ahi /\ j + k < bhi
               THEN MatchingBlocks(a, b, i + k, ahi, j + k, bhi) ELSE <<>>)

RECURSIVE OpcodesFrom(_, _, _)
\* difflib.SequenceMatcher.get_opcodes: the edit script between the blocks.
OpcodesFrom(blocks, i, j) ==
    IF blocks = <<>> THEN <<>>
    ELSE LET m == Head(blocks)
             tag == IF i < m[1] /\ j < m[2] THEN "replace"
                    ELSE IF i < m[1] THEN "delete"
                    ELSE IF j < m[2] THEN "insert" ELSE ""
         IN (IF tag = "" THEN <<>> ELSE <<<<tag, i, m[1], j, m[2]>>>>)
            \o (IF m[3] > 0
                  THEN <<<<"equal", m[1], m[1] + m[3], m[2], m[2] + m[3]>>>>
                  ELSE <<>>)
            \o OpcodesFrom(Tail(blocks), m[1] + m[3], m[2] + m[3])

Opcodes(a, b) ==
    OpcodesFrom(MatchingBlocks(a, b, 0, Len(a), 0, Len(b))
                    \o <<<<Len(a), Len(b), 0>>>>, 0, 0)

\* Lines of context of a hunk (the parameter n of difflib.unified_diff).
Context == 3

Max(x, y) == IF x >= y THEN x ELSE y
Min(x, y) == IF x <= y THEN x ELSE y

\* difflib.SequenceMatcher.get_grouped_opcodes for texts short enough that no
\* run of equal lines exceeds 2 * Context: the one group, with the equal
\* runs at its ends cut to Context lines; no group when nothing differs.
TrimFirst(codes) ==
    IF codes[1][1] = "equal"
      THEN <<<<"equal", Max(codes[1][2], codes[1][3] - Context), codes[1][3],
               Max(codes[1][4], codes[1][5] - Context), codes[1][5]>>>>
           \o Tail(codes)
      ELSE codes

TrimLast(codes) ==
    IF codes[Len(codes)][1] = "equal"
      THEN SubSeq(codes, 1, Len(codes) - 1) \o
           <<<<"equal", codes[Len(codes)][2],
               Min(codes[Len(codes)][3], codes[Len(codes)][2] + Context),
               codes[Len(codes)][4],
               Min(codes[Len(codes)][5], codes[Len(codes)][4] + Context)>>>>
      ELSE codes

GroupOf(codes) ==
    IF Len(codes) = 1 /\ codes[1][1] = "equal" THEN <<>>
    ELSE TrimLast(TrimFirst(codes))

Group(a, b) ==
    GroupOf(IF Opcodes(a, b) = <<>> THEN <<<<"equal", 0, 1, 0, 1>>>>
            ELSE Opcodes(a, b))

Digit(n) == CASE n = 0 -> "0" [] n = 1 -> "1" [] n = 2 -> "2" [] n = 3 -> "3"
              [] n = 4 -> "4" [] n = 5 -> "5" [] n = 6 -> "6" [] n = 7 -> "7"
              [] n = 8 -> "8" [] n = 9 -> "9"

\* difflib._format_range_unified
FormatRange(start, stop) ==
    LET length == stop - start IN
    IF length = 1 THEN Digit(start + 1)
    ELSE Digit(IF length = 0 THEN start ELSE start + 1) \o "," \o Digit(length)

RECURSIVE Prefixed(_, _, _, _)
\* tag + line for the lines lo..hi-1 (from 0) of ls.
Prefixed(tag, ls, lo, hi) ==
    IF lo >= hi THEN <<>>
    ELSE <<<<tag>> \o ls[lo + 1]>> \o Prefixed(tag, ls, lo + 1, hi)

RECURSIVE HunkLines(_, _, _)
HunkLines(codes, a, b) ==
    IF codes = <<>> THEN <<>>
    ELSE LET c == Head(codes) IN
         (IF c[1] = "equal" THEN Prefixed(" ", a, c[2], c[3])
          ELSE (IF c[1] \in {"replace", "delete"}
                  THEN Prefixed("-", a, c[2], c[3]) ELSE <<>>)
               \o (IF c[1] \in {"replace", "insert"}
                     THEN Prefixed("+", b, c[4], c[5]) ELSE <<>>))
         \o HunkLines(Tail(codes), a, b)

\* difflib.unified_diff(a, b): the two file headers, the hunk header and the
\* hunk's lines; nothing when the texts have no difference.
UnifiedDiff(a, b) ==
    LET g == Group(a, b) IN
    IF g = <<>> THEN <<>>
    ELSE << <<"--- \n">>, <<"+++ \n">>,
            <<"@@ -" \o FormatRange(g[1][2], g[Len(g)][3])
                \o " +" \o FormatRange(g[1][4], g[Len(g)][5]) \o " @@\n">> >>
         \o HunkLines(g, a, b)

DiffAlwaysHeader(a_src, b_src) ==
    <<"--- \n", "+++ \n">> \o Flatten(HunkLines(Opcodes(SplitLines(a_src),
                                                  SplitLines(b_src)),
                                          SplitLines(a_src), SplitLines(b_src)))

\* compute_diff(a_src, b_src), crawl.py:160-166.
compute_diff(a_src, b_src) ==
    Flatten(UnifiedDiff(SplitLines(a_src), SplitLines(b_src)))

\* -------------------------------------------------------------- diff store
NoFile == [st |-> "absent", data |-> <<>>]
FileOf(d) == [st |-> "file", data |-> d]

\* open(fn, 'a') followed by write(data): the data lands after the old content.
OpenAppend(old, data) == FileOf(old.data \o data)

\* with open(fn, 'w') as fs: fs.write(data): the file is created or
\* truncated, and holds data alone, crawl.py:207-212.
OpenWrite(old, data) == FileOf(data)

\* A directory of folder: whether it exists, its file <ref_addr>_code and
\* its files named after the similar identifiers.
NoDir == [dir |-> FALSE, code |-> NoFile, diffs |-> [c \in Listed |-> NoFile]]

EmptyStore == [r \in Listed |-> NoDir]

\* write_diff(ref_addr, ref_code, sim_addr, sim_code, folder): the store
\* after the call, crawl.py:193-212.
write_diff(st, ref_addr, ref_code, sim_addr, sim_code) ==
    LET diff == compute_diff(ref_code, sim_code) IN
    IF diff = <<>> THEN st
    ELSE [st EXCEPT ![ref_addr] =
             [dir |-> TRUE,
              code |-> OpenWrite(st[ref_addr].code, ref_code),
              diffs |-> [st[ref_addr].diffs EXCEPT
                            ![sim_addr] = OpenWrite(@, diff)]]]

\* Source texts over the characters of the model, for the calls of write_diff.
Chars == {"a", "b", "\n"}
Texts == UNION {[1..n -> Chars] : n \in 0..MaxTextLen}

\* The text extract_code returns for each listed identifier of the registry.
RegistryTexts == [a \in Listed |-> RemoveCR(EditorText(a))]

\* No call of write_diff yet.
NoWrites == [n |-> [pr \in Listed \X Listed |-> 0], total |-> 0,
             ref |-> 0, sim |-> 0, ref_code |-> <<>>, sim_code |-> <<>>]

\* The log of write_diff calls after one more call.
Written(w, ref_addr, ref_code, sim_addr, sim_code) ==
    [n |-> [w.n EXCEPT ![<<ref_addr, sim_addr>>] = @ + 1],
     total |-> w.total + 1,
     ref |-> ref_addr, sim |-> sim_addr,
     ref_code |-> ref_code, sim_code |-> sim_code]

StoreIdle ==
    /\ texts = RegistryTexts
    /\ store = EmptyStore
    /\ wcalls = {}
    /\ wd = NoWrites

\* One call of write_diff for a reference and a similar identifier.
WriteDiffCall(r, c) ==
    /\ store' = write_diff(store, r, texts[r], c, texts[c])
    /\ wcalls' = wcalls \cup {<<r, c>>}
    /\ wd' = Written(wd, r, texts[r], c, texts[c])
    /\ UNCHANGED texts

\* ---------------------------------------------------- cached computations
\* A cached value: the text extract_code returns or the set
\* extract_address_tags returns.
CodeVal(t) == [text |-> t, tags |-> {}]
TagsVal(S) == [text |-> <<>>, tags |-> S]
NoVal == [text |-> <<>>, tags |-> {}]

\* The pickle file name: func.__name__ + "_" + md5(str(arg)) + ".p".  The
\* digest is taken to be collision free on the arguments of a run.
CodeKey(a) == [fn |-> "extract_code", u |-> "code", n |-> a]
TagsKey(url) == [fn |-> "extract_address_tags", u |-> url.u, n |-> url.n]

KeyUrl(k) == [u |-> k.u, n |-> k.n]

Keys == {CodeKey(a) : a \in Listed} \cup
        {TagsKey(PageUrl(i)) : i \in 0..TotalPage} \cup
        {TagsKey(SimilarUrl(a)) : a \in Listed}

\* extract_code(address) on the fetched document, crawl.py:91-97.
extract_code(doc) ==
    IF doc.editor = NoEditor
      THEN [exc |-> "ValueError", val |-> NoVal]
      ELSE [exc |-> "", val |-> CodeVal(RemoveCR(doc.editor))]

\* A variant that raises on a document without any address tag.
TagsOrRaise(doc) ==
    IF doc.tags = {}
      THEN [exc |-> "ValueError", val |-> NoVal]
      ELSE [exc |-> "", val |-> TagsVal(doc.tags)]

\* extract_address_tags(url) on the fetched document, crawl.py:136-139.
extract_address_tags(doc) == [exc |-> "", val |-> TagsVal(doc.tags)]

\* Every document a cached function can be handed by fetch.
AllDocs == {Doc(KeyUrl(k)) : k \in Keys} \cup {Doc(IndexUrl), EmptyDoc}

\* func(arg) of the wrapper, given what fetch returned.
Func(k, doc) ==
    IF k.fn = "extract_code" THEN extract_code(doc)
    ELSE extract_address_tags(doc)

\* ------------------------------------------------------ cache_func_and_arg
\* Processes: 0 is the main process, 1..NbWorkers are the pool's workers.
NbWorkers == 2
Workers == 1..NbWorkers
Procs == {0} \cup Workers

Absent == [st |-> "absent", val |-> NoVal]
Partial == [st |-> "partial", val |-> NoVal]
Full(v) == [st |-> "full", val |-> v]

IdleFrame == [pc |-> "idle", key |-> CodeKey(0), res |-> NoVal, exc |-> ""]
\* failed counts the fetches of the key that exhausted their attempts.
NoHist == [invoc |-> 0, writes |-> 0, fetches |-> 0, raises |-> 0, hits |-> 0,
           failed |-> 0]

CacheIdle ==
    /\ file = [k \in Keys |-> Absent]
    /\ lock = [p \in Procs |-> FALSE]
    /\ cc = [p \in Procs |-> IdleFrame]
    /\ hist = [k \in Keys |-> NoHist]
    /\ calls = [p \in Procs |-> 0]
    /\ run = 0
    /\ nfail = 0

ExistsNever(f) == FALSE

\* os.path.exists(var_p): true as soon as the file has been created.
PathExists(f) == f.st # "absent"

\* A variant that stores an empty value when func(arg) raises.
EnterFrameStoringFailure(k, doc) ==
    IF PathExists(file[k])
      THEN [pc |-> "read", key |-> k, res |-> NoVal, exc |-> ""]
      ELSE [pc |-> "open", key |-> k, res |-> Func(k, doc).val, exc |-> ""]

\* The frame of a call new_func(arg) once it has tested os.path.exists(var_p)
\* and, when the file is missing, run res = func(arg) on what fetch returned.
EnterFrame(k, doc) ==
    IF PathExists(file[k])
      THEN [pc |-> "read", key |-> k, res |-> NoVal, exc |-> ""]
      ELSE LET r == Func(k, doc) IN
           IF r.exc = ""
             THEN [pc |-> "open", key |-> k, res |-> r.val, exc |-> ""]
             ELSE [pc |-> "raised", key |-> k, res |-> NoVal, exc |-> r.exc]

EnterHist(k, doc) ==
    IF PathExists(file[k]) THEN hist
    ELSE [hist EXCEPT ![k].invoc = @ + 1,
                      ![k].fetches = @ + 1,
                      ![k].raises = @ + (IF Func(k, doc).exc = "" THEN 0 ELSE 1),
                      ![k].failed = @ + (IF doc = Doc(KeyUrl(k)) THEN 0 ELSE 1)]

\* Process p enters new_func(arg) for key k; doc is what fetch returns to
\* func, which runs only when the file does not exist.
CacheEnter(p, k, doc) ==
    /\ doc \in FetchResults(KeyUrl(k))
    /\ PathExists(file[k]) => doc = EmptyDoc
    /\ cc' = [cc EXCEPT ![p] = EnterFrame(k, doc)]
    /\ hist' = EnterHist(k, doc)
    /\ nfail' = IF PathExists(file[k]) \/ doc = Doc(KeyUrl(k))
                  THEN nfail ELSE nfail + 1
    /\ UNCHANGED <<file, lock, run>>

\* CacheEnter for the pipeline, where at most MaxFailedFetches fetches of one
\* execution exhaust their attempts.
PipeEnter(p, k, doc) ==
    /\ \/ PathExists(file[k])
       \/ doc = Doc(KeyUrl(k))
       \/ nfail < MaxFailedFetches
    /\ CacheEnter(p, k, doc)

\* with _LOCK: with open(var_p, 'rb') as var_fs: return pickle.load(var_fs)
\* pickle.load of a file that is not yet completely written raises
\* (EOFError on an empty file, UnpicklingError on a truncated one).
CacheRead(p) ==
    /\ cc[p].pc = "read"
    /\ ~lock[p]
    /\ LET k == cc[p].key IN
         IF file[k].st = "full"
           THEN /\ cc' = [cc EXCEPT ![p].pc = "returned",
                                    ![p].res = file[k].val]
                /\ hist' = [hist EXCEPT ![k].hits = @ + 1]
           ELSE /\ cc' = [cc EXCEPT ![p].pc = "raised",
                                    ![p].exc = "EOFError"]
                /\ hist' = hist
    /\ UNCHANGED <<file, lock, calls, run, nfail>>
    /\ UNCHANGED otherVars

\* with _LOCK: with open(var_p, 'wb') as var_fs: the file is created, or
\* truncated, and holds nothing until the dump is flushed.
CacheOpen(p) ==
    /\ cc[p].pc = "open"
    /\ ~lock[p]
    /\ lock' = [lock EXCEPT ![p] = TRUE]
    /\ file' = [file EXCEPT ![cc[p].key] = Partial]
    /\ cc' = [cc EXCEPT ![p].pc = "dump"]
    /\ UNCHANGED <<hist, calls, run, nfail>>
    /\ UNCHANGED otherVars

\* pickle.dump(res, var_fs), the file is closed, _LOCK released; return res.
CacheDump(p) ==
    /\ cc[p].pc = "dump"
    /\ LET k == cc[p].key IN
         /\ file' = [file EXCEPT ![k] = Full(cc[p].res)]
         /\ hist' = [hist EXCEPT ![k].writes = @ + 1]
    /\ lock' = [lock EXCEPT ![p] = FALSE]
    /\ cc' = [cc EXCEPT ![p].pc = "returned"]
    /\ UNCHANGED <<calls, run, nfail>>
    /\ UNCHANGED otherVars

\* The caller takes the result, or the exception, of new_func.
CacheDone(p) ==
    /\ cc[p].pc \in {"returned", "raised"}
    /\ cc' = [cc EXCEPT ![p] = IdleFrame]
    /\ UNCHANGED <<file, lock, hist, calls, run, nfail>>
    /\ UNCHANGED otherVars

\* ---------------------------------------------------- pickle_cache_witness
\* The values var_fn() returns: sequences, whose length pickle_cache checks.
WValues == UNION {[1..n -> {"x"}] : n \in 0..MaxLen}

\* What a call of var_fn() does: return a value, or raise.
FnResults == {[exc |-> "", val |-> v] : v \in WValues} \cup
             {[exc |-> "Exception", val |-> <<>>]}

\* The witness predicates: lambda _: True of always_cache, and the length
\* check of pickle_cache.
Checks == {[kind |-> "always", length |-> 0]} \cup
          {[kind |-> "len", length |-> n] : n \in 0..MaxLen}

\* var_check(var)
VarCheck(chk, v) == chk.kind = "always" \/ Len(v) = chk.length

WAbsent == [st |-> "absent", val |-> <<>>]
WFull(v) == [st |-> "full", val |-> v]

NoCall == [called |-> FALSE, var_p |-> "None",
           chk |-> [kind |-> "always", length |-> 0], hook |-> FALSE,
           fn |-> [exc |-> "", val |-> <<>>], prior |-> WAbsent,
           invoked |-> 0, hooked |-> 0, ret |-> <<>>, exc |-> ""]

WitnessIdle ==
    /\ wfile = WAbsent
    /\ wstat = [calls |-> 0, invoc |-> 0, hooks |-> 0, misses |-> 0]
    /\ wlast = NoCall

HitWithoutCheck(f, chk) == f.st = "full"

\* The try block: the file opens, a value loads and var_check accepts it.
WitnessHit(f, chk) == f.st = "full" /\ VarCheck(chk, f.val)

\* One call pickle_cache_witness(var_fn, var_p, var_check, hook), where fn
\* is what var_fn() does when it is called.
pickle_cache_witness(fn, var_p, chk, hook) ==
    LET disabled == var_p = "None"
        hit == ~disabled /\ WitnessHit(wfile, chk)
        invoked == IF hit THEN 0 ELSE 1
        hooked == IF hit /\ hook THEN 1 ELSE 0
        raised == ~hit /\ fn.exc # ""
    IN /\ wfile' = IF disabled \/ hit \/ raised THEN wfile ELSE WFull(fn.val)
       /\ wstat' = [calls |-> wstat.calls + 1,
                    invoc |-> wstat.invoc + invoked,
                    hooks |-> wstat.hooks + hooked,
                    misses |-> wstat.misses +
                                  (IF disabled \/ raised \/
                                      (wfile.st = "full" /\ ~hit)
                                   THEN 1 ELSE 0)]
       /\ wlast' = [called |-> TRUE, var_p |-> var_p, chk |-> chk,
                    hook |-> hook, fn |-> fn, prior |-> wfile,
                    invoked |-> invoked, hooked |-> hooked,
                    ret |-> IF hit THEN wfile.val
                            ELSE IF raised THEN <<>> ELSE fn.val,
                    exc |-> IF raised THEN fn.exc ELSE ""]

\* -------------------------------------------------------------- copy_diffs
\* The files the selection file can name: folder/<ref_addr>/<sim_addr>.
SelPaths == {[dir |-> d, name |-> n] : d \in {"1", "3", "4"}, n \in {"2", "5"}}

\* The names a copy can get in output_dir.
DestNames == {"2", "5", "2_0", "5_0"}

CopyIdle ==
    /\ sel = <<>>
    /\ cpos = 0
    /\ out = [n \in DestNames |-> NoFile]

\* --------------------------------------------------- main and process_addr
IdlePA == [pc |-> "idle", ref |-> 0, similar |-> {}, ref_code |-> <<>>,
           todo |-> {}, cur |-> 0, similar_codes |-> <<>>]

NoLog == [st |-> "none", found |-> "?", ok |-> {}, nf |-> {}, exc |-> "",
          n |-> 0]

\* No call of fetch_addresses_verified yet: the urls it fetched, in order,
\* and the cache keys whose file existed when the call began.
NoDisc == [urls |-> <<>>, had |-> {}]

PipeIdle ==
    /\ parallel = TRUE
    /\ mpc = "idle"
    /\ batch = 0 /\ page = 0 /\ total_page = 0
    /\ verified = {}
    /\ addresses = <<>>
    /\ nexttask = 1
    /\ disc = NoDisc
    /\ pa = [p \in Procs |-> IdlePA]
    /\ plog = [a \in Listed |-> NoLog]

RECURSIVE Sorted(_)
\* sorted(verified_addresses)
Sorted(S) ==
    IF S = {} THEN <<>>
    ELSE LET m == CHOOSE x \in S : \A y \in S : x <= y
         IN <<m>> \o Sorted(S \ {m})

ISliceInclusive(seq, starting_addr, ending_addr) ==
    SubSeq(seq, starting_addr + 1, Min(ending_addr + 1, Len(seq)))

\* list(itertools.islice(addresses, starting_addr, ending_addr))
ISlice(seq, starting_addr, ending_addr) ==
    SubSeq(seq, starting_addr + 1, Min(ending_addr, Len(seq)))

\* nb_verified(): the index page is fetched and its paging panel read; on a
\* page without the panel soup.find returns None and numbers.findChildren
\* raises AttributeError, which nothing catches.
NbVerified(doc) ==
    /\ mpc = "nb_verified"
    /\ doc \in FetchResults(IndexUrl)
    /\ disc' = [urls |-> <<IndexUrl>>,
                had |-> {k \in Keys : PathExists(file[k])}]
    /\ IF doc.paging = NoPaging
         THEN /\ mpc' = "crashed"
              /\ UNCHANGED <<page, total_page, verified>>
         ELSE /\ mpc' = "pages"
              /\ total_page' = doc.paging[2]
              /\ page' = 0
              /\ verified' = {}
    /\ UNCHANGED <<parallel, batch, addresses, nexttask, pa, plog>>
    /\ UNCHANGED <<fetchVars, cacheVars, witnessVars, copyVars, storeVars>>

RangeInclusive(i, n) == i <= n

\* for i in range(total_page): whether i is one of the values of the loop.
InRange0(i, n) == i < n

\* res.update(get_ad_on_page(i)): the cached extract_address_tags is entered;
\* it fetches the page when its cache file does not exist.
PageCall(doc) ==
    /\ mpc = "pages"
    /\ InRange0(page, total_page)
    /\ PipeEnter(0, TagsKey(PageUrl(page)), doc)
    /\ disc' = IF PathExists(file[TagsKey(PageUrl(page))]) THEN disc
               ELSE [disc EXCEPT !.urls = Append(@, PageUrl(page))]
    /\ mpc' = "page_wait"
    /\ UNCHANGED <<parallel, batch, page, total_page, verified, addresses,
                   nexttask, pa, plog, calls>>
    /\ UNCHANGED <<fetchVars, witnessVars, copyVars, storeVars>>

\* get_ad_on_page(i) has returned (or raised): the next i.
PageDone ==
    /\ mpc = "page_wait"
    /\ cc[0].pc \in {"returned", "raised"}
    /\ IF cc[0].pc = "returned"
         THEN /\ verified' = verified \cup cc[0].res.tags
              /\ page' = page + 1
              /\ mpc' = "pages"
         ELSE /\ mpc' = "crashed"
              /\ UNCHANGED <<verified, page>>
    /\ cc' = [cc EXCEPT ![0] = IdleFrame]
    /\ UNCHANGED <<parallel, disc, batch, total_page, addresses, nexttask, pa, plog>>
    /\ UNCHANGED <<file, lock, hist, calls, run, nfail>>
    /\ UNCHANGED <<fetchVars, witnessVars, copyVars, storeVars>>

\* addresses = sorted(verified_addresses), sliced to the range of this call.
Slice ==
    /\ mpc = "pages"
    /\ ~InRange0(page, total_page)
    /\ addresses' = ISlice(Sorted(verified), batch * STEP, batch * STEP + STEP)
    /\ nexttask' = 1
    /\ mpc' = "tasks"
    /\ UNCHANGED <<parallel, disc, batch, page, total_page, verified, pa, plog>>
    /\ UNCHANGED <<fetchVars, cacheVars, witnessVars, copyVars, storeVars>>

\* The processes that run process_addr: the pool's workers, or the main
\* process itself when parallel is false.
Runners == IF parallel THEN Workers ELSE {0}

\* process_addr(ref_addr, ...) starts on a free process with the next
\* identifier of the slice, and enters find_similar(ref_addr).
\* (pool.starmap hands a slice of at most 8 identifiers out one at a time;
\* the workers are alike, and of two free ones the first is taken.)
ProcessAddr(p, doc) ==
    /\ mpc = "tasks"
    /\ p \in Runners
    /\ nexttask <= Len(addresses)
    /\ pa[p].pc = "idle"
    /\ \A q \in Runners : pa[q].pc = "idle" => p <= q
    /\ LET r == addresses[nexttask] IN
         /\ pa' = [pa EXCEPT ![p] = [IdlePA EXCEPT !.pc = "similar", !.ref = r]]
         /\ plog' = [plog EXCEPT ![r] = [NoLog EXCEPT !.st = "running",
                                                      !.n = plog[r].n + 1]]
         /\ PipeEnter(p, TagsKey(SimilarUrl(r)), doc)
    /\ nexttask' = nexttask + 1
    /\ UNCHANGED <<parallel, disc, mpc, batch, page, total_page, verified, addresses,
                   calls>>
    /\ UNCHANGED <<fetchVars, witnessVars, copyVars, storeVars>>

\* An exception leaves process_addr: a pool worker reports it and is free
\* again; without the pool it leaves main at once.
Raises(p, e) ==
    /\ pa' = [pa EXCEPT ![p] = IdlePA]
    /\ plog' = [plog EXCEPT ![pa[p].ref].st = "raised", ![pa[p].ref].exc = e]
    /\ mpc' = IF parallel THEN mpc ELSE "crashed"

\* process_addr returns.
Returns(p) ==
    /\ pa' = [pa EXCEPT ![p] = IdlePA]
    /\ plog' = [plog EXCEPT ![pa[p].ref].st = "returned"]
    /\ mpc' = mpc

KnownOrNot(tags, verified_addresses) == tags

\* find_similar(ref_addr) & verified_addresses
Known(tags, verified_addresses) == tags \cap verified_addresses

\* similar_addresses = find_similar(ref_addr) & verified_addresses, then
\* ref_code = safe_extract_code(ref_addr) is entered.
PA_Similar(p, doc) ==
    /\ pa[p].pc = "similar"
    /\ cc[p].pc \in {"returned", "raised"}
    /\ IF cc[p].pc = "returned"
         THEN /\ pa' = [pa EXCEPT ![p].pc = "ref",
                                  ![p].similar =
                                      Known(cc[p].res.tags, verified)]
              /\ PipeEnter(p, CodeKey(pa[p].ref), doc)
              /\ UNCHANGED <<plog, mpc>>
         ELSE /\ Raises(p, cc[p].exc)
              /\ doc = EmptyDoc
              /\ cc' = [cc EXCEPT ![p] = IdleFrame]
              /\ UNCHANGED <<file, lock, hist, run, nfail>>
    /\ UNCHANGED <<parallel, disc, batch, page, total_page, verified, addresses,
                   nexttask, calls>>
    /\ UNCHANGED <<fetchVars, witnessVars, copyVars, storeVars>>

\* safe_extract_code(ref_addr) is over: ValueError is logged and makes
\* ref_code None, and process_addr returns; any other exception leaves it.
PA_Ref(p) ==
    /\ pa[p].pc = "ref"
    /\ cc[p].pc \in {"returned", "raised"}
    /\ IF cc[p].pc = "returned"
         THEN /\ pa' = [pa EXCEPT ![p].pc = "cands",
                                  ![p].ref_code = cc[p].res.text,
                                  ![p].todo = pa[p].similar]
              /\ plog' = [plog EXCEPT ![pa[p].ref].found = "yes"]
              /\ mpc' = mpc
         ELSE IF cc[p].exc = "ValueError"
           THEN /\ pa' = [pa EXCEPT ![p] = IdlePA]
                /\ plog' = [plog EXCEPT ![pa[p].ref].st = "returned",
                                        ![pa[p].ref].found = "no"]
                /\ mpc' = mpc
           ELSE Raises(p, cc[p].exc)
    /\ cc' = [cc EXCEPT ![p] = IdleFrame]
    /\ UNCHANGED <<parallel, disc, batch, page, total_page, verified, addresses,
                   nexttask>>
    /\ UNCHANGED <<file, lock, hist, calls, run, nfail>>
    /\ UNCHANGED <<fetchVars, witnessVars, copyVars, storeVars>>

\* for addr in similar_addresses: sim_code = safe_extract_code(addr) is
\* entered, for the members of the set in any order.
PA_Cand(p, addr, doc) ==
    /\ pa[p].pc = "cands"
    /\ cc[p].pc = "idle"
    /\ addr \in pa[p].todo
    /\ pa' = [pa EXCEPT ![p].todo = @ \ {addr}, ![p].cur = addr]
    /\ PipeEnter(p, CodeKey(addr), doc)
    /\ UNCHANGED <<mainVars, plog, calls>>
    /\ UNCHANGED <<fetchVars, witnessVars, copyVars, storeVars>>

\* safe_extract_code(addr) is over: the code is kept in similar_codes, or
\* the identifier is skipped on ValueError; any other exception leaves
\* process_addr.
PA_CandDone(p) ==
    /\ pa[p].pc = "cands"
    /\ cc[p].pc \in {"returned", "raised"}
    /\ LET r == pa[p].ref
           c == pa[p].cur
       IN IF cc[p].pc = "returned"
            THEN /\ pa' = [pa EXCEPT ![p].similar_codes =
                              Append(@, [addr |-> c, code |-> cc[p].res.text])]
                 /\ plog' = [plog EXCEPT ![r].ok = @ \cup {c}]
                 /\ mpc' = mpc
            ELSE IF cc[p].exc = "ValueError"
              THEN /\ pa' = pa
                   /\ plog' = [plog EXCEPT ![r].nf = @ \cup {c}]
                   /\ mpc' = mpc
              ELSE Raises(p, cc[p].exc)
    /\ cc' = [cc EXCEPT ![p] = IdleFrame]
    /\ UNCHANGED <<parallel, disc, batch, page, total_page, verified, addresses,
                   nexttask>>
    /\ UNCHANGED <<file, lock, hist, calls, run, nfail>>
    /\ UNCHANGED <<fetchVars, witnessVars, copyVars, texts>>
    /\ UNCHANGED <<store, wcalls, wd>>

LoopLeftEarly(todo) == TRUE

\* The loop for addr in similar_addresses has gone through every member.
LoopOver(todo) == todo = {}

RECURSIVE WriteAll(_, _, _, _)
\* The store after write_diff was called for each entry of similar_codes, in
\* the order of insertion.
WriteAll(st, ref_addr, ref_code, codes) ==
    IF codes = <<>> THEN st
    ELSE WriteAll(write_diff(st, ref_addr, ref_code,
                             Head(codes).addr, Head(codes).code),
                  ref_addr, ref_code, Tail(codes))

RECURSIVE WrittenAll(_, _, _, _)
\* The log of write_diff calls after those calls.
WrittenAll(w, ref_addr, ref_code, codes) ==
    IF codes = <<>> THEN w
    ELSE WrittenAll(Written(w, ref_addr, ref_code,
                            Head(codes).addr, Head(codes).code),
                    ref_addr, ref_code, Tail(codes))

\* for addr in similar_codes: write_diff(...): the whole loop, which touches
\* the directory of ref_addr alone.
PA_Write(p) ==
    /\ pa[p].pc = "cands"
    /\ cc[p].pc = "idle"
    /\ LoopOver(pa[p].todo)
    /\ pa[p].similar_codes # <<>>
    /\ store' = WriteAll(store, pa[p].ref, pa[p].ref_code, pa[p].similar_codes)
    /\ wd' = WrittenAll(wd, pa[p].ref, pa[p].ref_code, pa[p].similar_codes)
    /\ wcalls' = wcalls \cup {<<pa[p].ref, pa[p].similar_codes[i].addr>> :
                                 i \in 1..Len(pa[p].similar_codes)}
    /\ pa' = [pa EXCEPT ![p].similar_codes = <<>>]
    /\ UNCHANGED <<mainVars, plog, texts>>
    /\ UNCHANGED <<fetchVars, cacheVars, witnessVars, copyVars>>

\* The loops are over: process_addr returns.
PA_Return(p) ==
    /\ pa[p].pc = "cands"
    /\ cc[p].pc = "idle"
    /\ pa[p].todo = {}
    /\ pa[p].similar_codes = <<>>
    /\ Returns(p)
    /\ UNCHANGED <<parallel, disc, batch, page, total_page, verified, addresses,
                   nexttask>>
    /\ UNCHANGED <<fetchVars, cacheVars, witnessVars, copyVars, storeVars>>

SliceSet == {addresses[i] : i \in 1..Len(addresses)}

\* Every identifier has been handed out and every process_addr is over:
\* starmap returns, or raises the exception a worker reported, and main ends.
MainEnd ==
    /\ mpc = "tasks"
    /\ nexttask > Len(addresses)
    /\ \A p \in Procs : pa[p].pc = "idle"
    /\ mpc' = IF \E r \in SliceSet : plog[r].st = "raised"
                THEN "crashed" ELSE "returned"
    /\ UNCHANGED <<parallel, disc, batch, page, total_page, verified, addresses,
                   nexttask, pa, plog>>
    /\ UNCHANGED <<fetchVars, cacheVars, witnessVars, copyVars, storeVars>>

\* The loop of __main__ calls main for the next range.
NextMain ==
    /\ mpc = "returned"
    /\ batch + 1 < NbBatches
    /\ batch' = batch + 1
    /\ mpc' = "nb_verified"
    /\ UNCHANGED <<parallel, disc, page, total_page, verified, addresses, nexttask,
                   pa, plog>>
    /\ UNCHANGED <<fetchVars, cacheVars, witnessVars, copyVars, storeVars>>

Init ==
    /\ FetchIdle /\ CacheIdle /\ WitnessIdle /\ CopyIdle /\ StoreIdle
    /\ parallel \in BOOLEAN
    /\ mpc = "nb_verified"
    /\ batch = 0 /\ page = 0 /\ total_page = 0
    /\ verified = {}
    /\ addresses = <<>>
    /\ nexttask = 1
    /\ disc = NoDisc
    /\ pa = [p \in Procs |-> IdlePA]
    /\ plog = [a \in Listed |-> NoLog]

Next ==
    \/ \E doc \in AllDocs : NbVerified(doc)
    \/ \E doc \in AllDocs : PageCall(doc)
    \/ PageDone
    \/ Slice
    \/ \E p \in Procs, doc \in AllDocs : ProcessAddr(p, doc)
    \/ \E p \in Procs, doc \in AllDocs : PA_Similar(p, doc)
    \/ \E p \in Procs : PA_Ref(p)
    \/ \E p \in Procs, addr \in Listed, doc \in AllDocs : PA_Cand(p, addr, doc)
    \/ \E p \in Procs : PA_CandDone(p)
    \/ \E p \in Procs : PA_Write(p)
    \/ \E p \in Procs : PA_Return(p)
    \/ \E p \in Procs : CacheRead(p)
    \/ \E p \in Procs : CacheOpen(p)
    \/ \E p \in Procs : CacheDump(p)
    \/ MainEnd
    \/ NextMain

Spec == Init /\ [][Next]_vars

\* ---- pool workers calling the cached extract_code concurrently
InitCache == FetchIdle /\ CacheIdle /\ WitnessIdle /\ CopyIdle /\ StoreIdle /\ PipeIdle

\* A worker calls extract_code(a), as process_addr does.
WorkerCall(p, a, doc) ==
    /\ cc[p].pc = "idle"
    /\ calls[p] < MaxCalls
    /\ CacheEnter(p, CodeKey(a), doc)
    /\ calls' = [calls EXCEPT ![p] = @ + 1]
    /\ UNCHANGED otherVars

NextCache ==
    \/ \E p \in Workers, a \in {1, 2}, doc \in AllDocs : WorkerCall(p, a, doc)
    \/ \E p \in Workers : CacheRead(p)
    \/ \E p \in Workers : CacheOpen(p)
    \/ \E p \in Workers : CacheDump(p)
    \/ \E p \in Workers : CacheDone(p)

SpecCache == InitCache /\ [][NextCache]_vars

\* ---- one process calling the cached functions one call after the other
\* The program exits between two calls and is started again: the files stay.
Restart ==
    /\ cc[0].pc = "idle"
    /\ run < MaxRuns
    /\ run' = run + 1
    /\ lock' = [lock EXCEPT ![0] = FALSE]
    /\ UNCHANGED <<file, cc, hist, calls, nfail, otherVars>>

SeqKeys == {CodeKey(1), TagsKey(PageUrl(0))}

InitSeq == FetchIdle /\ CacheIdle /\ WitnessIdle /\ CopyIdle /\ StoreIdle /\ PipeIdle

\* The process calls a cached function of crawl.py.
SeqCall(k, doc) ==
    /\ cc[0].pc = "idle"
    /\ calls[0] + wstat.calls < MaxSeqCalls
    /\ CacheEnter(0, k, doc)
    /\ calls' = [calls EXCEPT ![0] = @ + 1]
    /\ UNCHANGED otherVars

\* The process calls pickle_cache_witness.  An argument the call never looks
\* at is drawn as one value only: var_fn when the stored value is accepted,
\* var_check and hook when var_p is None.
SeqWitnessCall(fn, var_p, chk, hook) ==
    /\ cc[0].pc = "idle"
    /\ calls[0] + wstat.calls < MaxSeqCalls
    /\ (var_p # "None" /\ WitnessHit(wfile, chk)) =>
          fn = [exc |-> "", val |-> <<>>]
    /\ var_p = "None" => (chk.kind = "always" /\ ~hook)
    /\ pickle_cache_witness(fn, var_p, chk, hook)
    /\ UNCHANGED <<fetchVars, cacheVars, storeVars, pipeVars, copyVars>>

NextSeq ==
    \/ \E k \in SeqKeys, doc \in AllDocs : SeqCall(k, doc)
    \/ CacheRead(0)
    \/ CacheOpen(0)
    \/ CacheDump(0)
    \/ CacheDone(0)
    \/ Restart
    \/ \E fn \in FnResults, var_p \in {"None", "var_p"}, chk \in Checks,
          hook \in BOOLEAN : SeqWitnessCall(fn, var_p, chk, hook)

SpecSeq == InitSeq /\ [][NextSeq]_vars

\* ---- calls of write_diff on the source texts of two identifiers
StoreAddrs == {1, 2}

InitStore ==
    /\ FetchIdle /\ CacheIdle /\ WitnessIdle /\ CopyIdle /\ PipeIdle
    /\ \E t1 \in Texts, t2 \in Texts :
          texts = [a \in Listed |-> IF a = 1 THEN t1
                                   ELSE IF a = 2 THEN t2 ELSE <<>>]
    /\ store = EmptyStore
    /\ wcalls = {}
    /\ wd = NoWrites

StoreCall(r, c) ==
    /\ wd.total < MaxWrites
    /\ WriteDiffCall(r, c)
    /\ UNCHANGED <<fetchVars, cacheVars, witnessVars, copyVars, pipeVars>>

NextStore == \E r \in StoreAddrs, c \in StoreAddrs : StoreCall(r, c)

SpecStore == InitStore /\ [][NextStore]_vars

\* ---- fetch_addresses_verified, run after run over one pickle.d directory
InitDiscover ==
    /\ FetchIdle /\ CacheIdle /\ WitnessIdle /\ CopyIdle /\ StoreIdle
    /\ parallel = TRUE
    /\ mpc = "nb_verified"
    /\ batch = 0 /\ page = 0 /\ total_page = 0
    /\ verified = {}
    /\ addresses = <<>>
    /\ nexttask = 1
    /\ disc = NoDisc
    /\ pa = [p \in Procs |-> IdlePA]
    /\ plog = [a \in Listed |-> NoLog]

\* The program is stopped wherever fetch_addresses_verified is (between two
\* pages, inside a fetch, or between open(var_p, 'wb') and the end of
\* pickle.dump, which leaves the file as it is then), or after it ended, and
\* is started again: the files of pickle.d are all that remains.
Interrupt ==
    /\ mpc \in {"pages", "page_wait", "tasks", "crashed"}
    /\ run < MaxRuns
    /\ run' = run + 1
    /\ cc' = [cc EXCEPT ![0] = IdleFrame]
    /\ lock' = [lock EXCEPT ![0] = FALSE]
    /\ mpc' = "nb_verified"
    /\ page' = 0 /\ total_page' = 0
    /\ verified' = {}
    /\ addresses' = <<>>
    /\ disc' = NoDisc
    /\ UNCHANGED <<parallel, batch, nexttask, pa, plog>>
    /\ UNCHANGED <<file, hist, calls, nfail>>
    /\ UNCHANGED <<fetchVars, witnessVars, copyVars, storeVars>>

NextDiscover ==
    \/ \E doc \in AllDocs : NbVerified(doc)
    \/ \E doc \in AllDocs : PageCall(doc)
    \/ CacheRead(0)
    \/ CacheOpen(0)
    \/ CacheDump(0)
    \/ PageDone
    \/ Slice
    \/ Interrupt

SpecDiscover == InitDiscover /\ [][NextDiscover]_vars

\* ---- write_diff called again and again for the pairs of one reference,
\* ---- with any reference text and candidate text each time
RewriteTexts == {<<"a", "\n">>, <<"b", "\n">>, <<"a", "\n", "b", "\n">>}

InitRewrite ==
    /\ FetchIdle /\ CacheIdle /\ WitnessIdle /\ CopyIdle /\ StoreIdle /\ PipeIdle

RewriteCall(r, c, ref_code, sim_code) ==
    /\ wd.n[<<r, c>>] < MaxRewrites
    /\ store' = write_diff(store, r, ref_code, c, sim_code)
    /\ wcalls' = wcalls \cup {<<r, c>>}
    /\ wd' = Written(wd, r, ref_code, c, sim_code)
    /\ UNCHANGED texts
    /\ UNCHANGED <<fetchVars, cacheVars, witnessVars, copyVars, pipeVars>>

NextRewrite ==
    \E c \in StoreAddrs, ref_code \in RewriteTexts, sim_code \in RewriteTexts :
        RewriteCall(1, c, ref_code, sim_code)

SpecRewrite == InitRewrite /\ [][NextRewrite]_vars

\* ---- copy_diffs over a selection file
RECURSIVE SeqsUpTo(_, _)
\* The sequences over S of length at most n.
SeqsUpTo(S, n) ==
    IF n = 0 THEN {<<>>}
    ELSE LET shorter == SeqsUpTo(S, n - 1)
         IN shorter \cup {Append(q, x) : q \in {r \in shorter : Len(r) = n - 1},
                                         x \in S}

InitCopy ==
    /\ FetchIdle /\ CacheIdle /\ WitnessIdle /\ StoreIdle /\ PipeIdle
    /\ sel \in SeqsUpTo(SelPaths, MaxList)
    /\ cpos = 0
    /\ out = [n \in DestNames |-> NoFile]


\* dest_file = os.path.join(output_dir, dest_name);
\* if os.path.exists(dest_file): dest_file += "_0"
DestFile(dest_name) ==
    IF out[dest_name].st = "file" THEN dest_name \o "_0" ELSE dest_name

\* One turn of the loop over the selection file: dest_name is the last
\* component of the line, and shutil.copy2 creates or replaces dest_file
\* with the content of the named file (here the file's own path).
CopyNext ==
    /\ cpos < Len(sel)
    /\ LET fn == sel[cpos + 1] IN
         out' = [out EXCEPT ![DestFile(fn.name)] = FileOf(fn)]
    /\ cpos' = cpos + 1
    /\ UNCHANGED sel
    /\ UNCHANGED <<fetchVars, cacheVars, witnessVars, storeVars, pipeVars>>

NextCopy == CopyNext

SpecCopy == InitCopy /\ [][NextCopy]_vars

\* ---------------------------------------------------------- store: claims
\* C10: a diff file exists only for a pair of identifiers whose source texts
\* differ, a directory exists only when it holds a diff file, and the diff
\* of a text with itself is empty.
C10_NoDiffOfIdenticalTexts ==
    /\ \A r \in Listed, c \in Listed :
          store[r].diffs[c].st = "file" => texts[r] # texts[c]
    /\ \A r \in Listed :
          (store[r].dir \/ store[r].code.st = "file") =>
              \E c \in Listed : store[r].diffs[c].st = "file"
    /\ \A r \in StoreAddrs : compute_diff(texts[r], texts[r]) = <<>>

\* write_diff was called for a reference against itself and against another
\* identifier with the same two-line text, and wrote nothing.
C10_Witness ==
    /\ wcalls = {<<1, 1>>, <<1, 2>>}
    /\ texts[1] = texts[2] /\ Len(SplitLines(texts[1])) = 2
    /\ store = EmptyStore

\* ---------------------------------------------------------- cache: claims
\* C1: at most one value is ever written to the cache file of a key, however
\* the pool's workers interleave.
C1_AtMostOneWrite == \A k \in Keys : hist[k].writes <= 1

\* C2: no worker ever loads a cache file that another worker has opened for
\* writing and not yet finished writing.
C2_NoPartialRead ==
    \A p \in Workers : ~(cc[p].pc = "raised" /\ cc[p].exc = "EOFError")

\* C3: for a single sequential caller, a key whose computation never raised
\* and for which a call has returned has had its computation invoked exactly
\* once and its file written once, restarts included, and a returning call
\* returns the stored value; a call of pickle_cache_witness that finds a
\* stored value its witness accepts returns it without invoking var_fn, and
\* var_fn has been invoked exactly once after any number of such calls.
C3_ComputedOnce ==
    /\ \A k \in Keys :
          (hist[k].raises = 0 /\ hist[k].writes + hist[k].hits >= 1) =>
              (hist[k].invoc = 1 /\ hist[k].writes = 1)
    /\ cc[0].pc = "returned" => file[cc[0].key] = Full(cc[0].res)
    /\ (/\ wlast.called /\ wlast.var_p # "None"
        /\ wlast.prior.st = "full"
        /\ VarCheck(wlast.chk, wlast.prior.val)) =>
          (wlast.invoked = 0 /\ wlast.ret = wlast.prior.val /\ wfile = wlast.prior)
    /\ (wstat.calls >= 1 /\ wstat.misses = 0) => wstat.invoc = 1

\* After a restart, a second call for a key was served from its file, and a
\* second call of pickle_cache_witness was served from var_p.
C3_Witness ==
    /\ run >= 1
    /\ \E k \in Keys : hist[k].hits >= 1 /\ hist[k].invoc = 1
    /\ wstat.calls = 2 /\ wstat.misses = 0 /\ wstat.invoc = 1
    /\ wlast.prior.st = "full" /\ wlast.invoked = 0

\* C4: a call of pickle_cache_witness that finds a stored value its witness
\* rejects invokes var_fn, does not invoke the hook and, when var_fn returns,
\* stores and returns the new result; a call that finds a stored value its
\* witness accepts invokes the hook exactly once and var_fn not at all.
C4_RejectedIsRecomputed ==
    (wlast.called /\ wlast.var_p # "None" /\ wlast.prior.st = "full") =>
        IF VarCheck(wlast.chk, wlast.prior.val)
          THEN /\ wlast.invoked = 0
               /\ wlast.hook => wlast.hooked = 1
               /\ wfile = wlast.prior
          ELSE /\ wlast.invoked = 1
               /\ wlast.hooked = 0
               /\ wlast.fn.exc = "" =>
                     /\ wfile = WFull(wlast.fn.val)
                     /\ wlast.ret = wlast.fn.val
                     /\ wlast.exc = ""

\* A stored value was accepted once, with the hook run, and then rejected
\* and replaced by a different value.
C4_Witness ==
    /\ wlast.called /\ wlast.prior.st = "full"
    /\ ~VarCheck(wlast.chk, wlast.prior.val)
    /\ wlast.invoked = 1 /\ wlast.hook /\ wlast.hooked = 0
    /\ wfile = WFull(wlast.fn.val) /\ wlast.fn.val # wlast.prior.val
    /\ wstat.hooks = 1 /\ wstat.invoc = 2

\* --------------------------------------------------- cache: more claims
\* The calls of the sequential caller for key k that are over or have passed
\* the test of os.path.exists: those that ran func and those served from the
\* file.
CallsOf(k) == hist[k].invoc + hist[k].hits

\* C19: for a single sequential caller, a call whose computation raises ends
\* with that exception (the ValueError of extract_code) and leaves the key
\* without a file; every invocation for a key has fetched, and every
\* invocation but the one that stored the key's file has raised, so that each
\* call made while the key has no file has invoked the computation again;
\* and a stored source text is the text of the registry, never the outcome
\* of a failed call.
C19_RaiseLeavesNoEntry ==
    /\ cc[0].pc = "raised" =>
          /\ cc[0].exc = "ValueError"
          /\ cc[0].key.fn = "extract_code"
          /\ file[cc[0].key] = Absent
    /\ \A k \in Keys :
          /\ hist[k].fetches = hist[k].invoc
          /\ hist[k].invoc = hist[k].raises
                + (IF cc[0].key = k /\ cc[0].pc = "open" THEN 1 ELSE 0)
                + (IF PathExists(file[k]) THEN 1 ELSE 0)
          /\ ~PathExists(file[k]) => hist[k].hits = 0
          /\ k.fn = "extract_code" => hist[k].raises = hist[k].failed
    /\ calls[0] = CallsOf(CodeKey(1)) + CallsOf(TagsKey(PageUrl(0)))
                     + (IF cc[0].pc = "read" THEN 1 ELSE 0)
    /\ \A a \in Listed :
          file[CodeKey(a)].st = "full" =>
              file[CodeKey(a)].val = CodeVal(RegistryTexts[a])

\* extract_code raised twice for identifier 1, the second time after a
\* restart, and the third call fetched again and stored the text.
C19_Witness ==
    /\ hist[CodeKey(1)].raises = 2 /\ hist[CodeKey(1)].invoc = 3
    /\ run >= 1
    /\ file[CodeKey(1)] = Full(CodeVal(RegistryTexts[1]))
    /\ cc[0].pc = "returned"

\* C20: for a single sequential caller, extract_address_tags never raises
\* and its URL is fetched at most once over all runs; when that fetch
\* exhausted its attempts, the value computed, stored and returned for the
\* URL is the empty set, in that call and in every later call, which is
\* served from the file.
C20_EmptySetIsCached ==
    \A k \in Keys :
        k.fn = "extract_address_tags" =>
            /\ hist[k].raises = 0
            /\ hist[k].fetches <= 1
            /\ hist[k].failed = 1 =>
                  /\ file[k] \in {Absent, Partial, Full(TagsVal({}))}
                  /\ file[k] = Absent => cc[0].key = k /\ cc[0].pc = "open"
                  /\ file[k] = Partial => cc[0].key = k /\ cc[0].pc = "dump"
                  /\ (cc[0].key = k /\
                      cc[0].pc \in {"open", "dump", "returned"}) =>
                        cc[0].res = TagsVal({})
                  /\ hist[k].writes <= 1
            /\ (cc[0].key = k /\ cc[0].pc = "read") => hist[k].fetches = 1

\* The fetch of the first listing page failed, the empty set was stored, and
\* after a restart two more calls were served the empty set from the file.
C20_Witness ==
    LET k == TagsKey(PageUrl(0)) IN
        /\ hist[k].failed = 1 /\ hist[k].fetches = 1
        /\ hist[k].hits = 2 /\ run >= 1
        /\ PageTags(0) # {}
        /\ file[k] = Full(TagsVal({}))
        /\ cc[0].pc = "returned" /\ cc[0].key = k /\ cc[0].res = TagsVal({})

\* ---- one call of fetch
InitFetch ==
    /\ fpc = "loop"
    /\ nb_attempts \in 0..MaxAttempts
    /\ attempt = 0 /\ requests = 0 /\ outs = <<>> /\ fres = NoRes
    /\ CacheIdle /\ WitnessIdle /\ CopyIdle /\ StoreIdle /\ PipeIdle

NextFetch ==
    \/ \E o \in Outcomes : FetchAttempt(o)
    \/ FetchExhausted

SpecFetch == InitFetch /\ [][NextFetch]_vars

\* ---------------------------------------------------------- fetch: claims
AllFailed == \A i \in 1..Len(outs) : outs[i].kind # "ok"

FirstOk == CHOOSE i \in 1..Len(outs) :
               /\ outs[i].kind = "ok"
               /\ \A j \in 1..(i - 1) : outs[j].kind # "ok"

\* C5: when every attempt of a call of fetch has failed and the call is over,
\* the call has returned (not raised), its result is the empty string and it
\* has issued exactly nb_attempts requests.
C5_ExhaustedReturnsEmpty ==
    (fpc # "loop" /\ AllFailed) =>
        /\ fpc = "returned"
        /\ fres = ""
        /\ requests = nb_attempts
        /\ Len(outs) = nb_attempts

\* A call with the default number of attempts, all of them failed.
C5_Witness ==
    /\ fpc = "returned" /\ AllFailed
    /\ nb_attempts = 5 /\ requests = 5 /\ fres = ""

\* C6: fetch never issues more than nb_attempts requests, never issues a
\* request after a successful one, and once a request has succeeded after N
\* failures the call returns that response's text after exactly N+1 requests.
C6_RetryUntilSuccess ==
    /\ requests <= nb_attempts
    /\ requests = Len(outs)
    /\ \A i \in 1..(Len(outs) - 1) : outs[i].kind # "ok"
    /\ ~AllFailed =>
          /\ fpc = "returned"
          /\ FirstOk - 1 < nb_attempts
          /\ fres = outs[FirstOk].text
          /\ requests = FirstOk

\* Two failures, then a success on the third of five attempts.
C6_Witness ==
    /\ fpc = "returned" /\ nb_attempts = 5 /\ requests = 3
    /\ outs[1].kind = "HTTPError" /\ outs[2].kind = "OpenSSL.SSL.Error"
    /\ outs[3].kind = "ok" /\ fres = "page"

\* ------------------------------------------------------- pipeline: claims
\* C7: main never ends with an exception: whatever fetches fail and whatever
\* source texts are missing, the run of a range is never a crashed run.
C7_AlwaysCompletes == mpc # "crashed"

\* The output process_addr leaves for reference r when it ran to its end
\* with the candidates it extracted: a diff file for each of them whose text
\* differs from the reference's, and nothing else.
OutputOf(r) ==
    [c \in Listed |->
        IF c \in plog[r].ok /\ compute_diff(texts[r], texts[c]) # <<>>
          THEN FileOf(compute_diff(texts[r], texts[c]))
          ELSE NoFile]

\* C8: once main is over for a slice in which the source of some reference
\* was not found, that reference has no directory, and every other
\* reference of the slice was processed to its end and has its output.
C8_ReferenceFailureContained ==
    (/\ mpc \in {"returned", "crashed"}
     /\ \E x \in SliceSet : plog[x].found = "no") =>
        /\ \A x \in SliceSet : plog[x].found = "no" => ~store[x].dir
        /\ \A y \in SliceSet :
              plog[y].found # "no" =>
                  /\ plog[y].st = "returned"
                  /\ store[y].diffs = OutputOf(y)

\* C9: when process_addr is over for a reference whose source was extracted
\* and one of whose candidates was not found, every candidate that was
\* extracted and differs from the reference has its diff file, and no file
\* is named after a candidate that was not found.
C9_CandidateFailureContained ==
    \A r \in Listed :
        (/\ plog[r].st \in {"returned", "raised"}
         /\ plog[r].found = "yes"
         /\ plog[r].nf # {}) =>
            /\ store[r].diffs = OutputOf(r)
            /\ \A c \in plog[r].nf : store[r].diffs[c] = NoFile

\* ---------------------------------------------------- store: more claims
\* C11: after any number of calls of write_diff for a pair, the latest of
\* them with a non-empty diff, the reference's directory holds the file
\* <ref>_code with exactly the reference text of the latest call and the file
\* <cand> with exactly the diff of the latest call; and a directory holds a
\* diff file only under the name of a candidate write_diff was called for.
C11_RewriteOverwrites ==
    /\ (wd.ref # 0 /\ compute_diff(wd.ref_code, wd.sim_code) # <<>>) =>
          /\ store[wd.ref].dir
          /\ store[wd.ref].code = FileOf(wd.ref_code)
          /\ store[wd.ref].diffs[wd.sim] =
                FileOf(compute_diff(wd.ref_code, wd.sim_code))
    /\ \A r \in Listed, c \in Listed :
          store[r].diffs[c].st = "file" => wd.n[<<r, c>>] >= 1
    /\ \A r \in Listed : store[r].dir <=> store[r].code.st = "file"

\* write_diff was called three times for the pair (1, 2), the last time with
\* a reference text other than the one before, and the two files hold what
\* the last call wrote.
C11_Witness ==
    /\ wd.n[<<1, 2>>] = 3 /\ wd.ref = 1 /\ wd.sim = 2
    /\ wd.ref_code = <<"b", "\n">> /\ wd.sim_code = <<"a", "\n", "b", "\n">>
    /\ store[1].code = FileOf(<<"b", "\n">>)
    /\ store[1].diffs[2] = FileOf(compute_diff(wd.ref_code, wd.sim_code))

\* ------------------------------------------------------ discovery: claims
PageKeys(n) == {TagsKey(PageUrl(i)) : i \in 0..(n - 1)}

\* C12: in the first run, over an empty cache, fetch_addresses_verified
\* fetches the index and then the pages 0, 1, ... in this order, each once;
\* when it returns it has issued total_page + 1 fetches and its result is the
\* union of the sets extracted from the total_page pages.
C12_DiscoveryFetches ==
    run = 0 =>
        /\ \A j \in 1..Len(disc.urls) :
              disc.urls[j] = IF j = 1 THEN IndexUrl ELSE PageUrl(j - 2)
        /\ Len(disc.urls) <= total_page + 1
        /\ \A k \in Keys : hist[k].fetches <= 1
        /\ mpc = "tasks" =>
              /\ Len(disc.urls) = total_page + 1
              /\ verified = UNION {file[k].val.tags : k \in PageKeys(total_page)}
              /\ verified \subseteq UNION {PageTags(i) : i \in 0..(total_page - 1)}

\* The first run has returned the identifiers of both pages after three
\* fetches.
C12_Witness ==
    /\ run = 0 /\ mpc = "tasks" /\ total_page = 2
    /\ disc.urls = <<IndexUrl, PageUrl(0), PageUrl(1)>>
    /\ verified = {1, 2, 3, 4}

\* C13: a run of fetch_addresses_verified that follows an interrupted one
\* and finds the set of some page stored fetches no page whose cache file it
\* found, does not fail on a page, and returns the union of the sets stored
\* for the pages.
C13_DiscoveryResumes ==
    (run >= 1 /\ \E k \in disc.had : file[k].st = "full") =>
        /\ \A k \in disc.had : \A j \in 1..Len(disc.urls) :
              disc.urls[j] = IndexUrl \/ TagsKey(disc.urls[j]) # k
        /\ ~(mpc = "crashed" /\ total_page > 0)
        /\ mpc = "tasks" =>
              verified = UNION {file[k].val.tags : k \in PageKeys(total_page)}

\* ------------------------------------------------- pipeline: more claims
\* Number of discovered identifiers smaller than a: the index of a in the
\* sorted sequence, from 0.
Rank(a) == Cardinality({b \in verified : b < a})

\* The pool, or the loop, of the running call of main has nothing left to do.
TasksOver ==
    \/ mpc = "returned"
    \/ mpc \in {"tasks", "crashed"} /\ addresses # <<>> /\
       nexttask > Len(addresses) /\ \A p \in Procs : pa[p].pc = "idle"

C15_CopyNeverOverwrites ==
    Cardinality({n \in DestNames : out[n].st = "file"}) = cpos

\* C16: once process_addr has returned for a reference whose source text was
\* extracted, the reference's directory exists and holds the file <ref>_code
\* with that text, however many diff files it holds.
C16_ReferenceTextPersisted ==
    \A r \in Listed :
        (plog[r].st = "returned" /\ plog[r].found = "yes") =>
            store[r].dir /\ store[r].code = FileOf(texts[r])

\* fetch_addresses_verified has gone through every page: verified is the
\* discovered set.
DiscoveryOver == total_page > 0 /\ page >= total_page

\* What find_similar returned for reference r, as the cache holds it.
SimilarOf(r) == file[TagsKey(SimilarUrl(r))].val.tags

\* C17: the candidates of a reference (those waiting, the one being
\* extracted, those extracted or not found) and the names of its diff files
\* are members of its similar set and of the discovered set; the source of
\* an identifier is only ever computed for a discovered identifier; and
\* while identifiers are processed the discovered set is the union of the
\* sets of the listing pages.
C17_OnlyKnownCandidates ==
    /\ \A p \in Procs :
          pa[p].pc \in {"ref", "cands"} =>
              /\ pa[p].similar \subseteq SimilarTags(pa[p].ref) \cap verified
              /\ pa[p].todo \subseteq pa[p].similar
              /\ pa[p].pc = "cands" /\ cc[p].pc # "idle" =>
                    pa[p].cur \in pa[p].similar
    /\ DiscoveryOver =>
          /\ \A r \in Listed :
                /\ plog[r].ok \cup plog[r].nf
                      \subseteq SimilarTags(r) \cap verified
                /\ \A c \in Listed :
                      (store[r].diffs[c].st = "file" \/ wd.n[<<r, c>>] > 0) =>
                          c \in SimilarTags(r) \cap verified
          /\ \A a \in Listed : hist[CodeKey(a)].invoc > 0 => a \in verified
    /\ ~DiscoveryOver /\ batch = 0 =>
          \A a \in Listed : hist[CodeKey(a)].invoc = 0 /\ ~store[a].dir
    /\ mpc = "tasks" =>
          verified = UNION {file[k].val.tags : k \in PageKeys(total_page)}

\* With only the first listing page obtained, reference 1 was processed to
\* its end: of its similar set {1, 2, 3, 4, 9} only 1 and 2 were extracted.
C17_Witness ==
    /\ verified = {1, 2}
    /\ plog[1].st = "returned" /\ plog[1].ok = {1, 2} /\ plog[1].nf = {}
    /\ SimilarOf(1) = {1, 2, 3, 4, 9}
    /\ store[1].diffs[2].st = "file"

\* C18: while the similar set of a reference is being resolved nothing was
\* extracted for it; candidates are extracted only once the reference text
\* was; write_diff is called, and the directory written, only once every
\* member of the similar set was extracted or found missing; and for a
\* reference whose text was not found no candidate is extracted and nothing
\* is written.
C18_StepsInOrder ==
    /\ \A p \in Procs :
          /\ pa[p].pc = "similar" =>
                /\ cc[p].key = TagsKey(SimilarUrl(pa[p].ref))
                /\ plog[pa[p].ref].found = "?"
          /\ pa[p].pc = "ref" =>
                /\ cc[p].key = CodeKey(pa[p].ref)
                /\ plog[pa[p].ref].found = "?"
                /\ pa[p].similar = SimilarOf(pa[p].ref) \cap verified
          /\ pa[p].pc = "cands" =>
                /\ plog[pa[p].ref].found = "yes"
                /\ cc[p].pc # "idle" => cc[p].key = CodeKey(pa[p].cur)
    /\ \A r \in Listed :
          /\ plog[r].found = "?" => plog[r].ok \cup plog[r].nf = {}
          /\ (store[r].dir \/ \E c \in Listed : wd.n[<<r, c>>] > 0) =>
                /\ plog[r].found = "yes"
                /\ DiscoveryOver =>
                      plog[r].ok \cup plog[r].nf = SimilarOf(r) \cap verified
          /\ plog[r].found = "no" =>
                /\ plog[r].st = "returned"
                /\ plog[r].ok \cup plog[r].nf = {}
                /\ ~store[r].dir
                /\ \A c \in Listed : wd.n[<<r, c>>] = 0

\* Reference 1 was processed to its end and has its diff files, and
\* reference 2, whose source was not found, has returned with nothing.
C18_Witness ==
    /\ plog[1].st = "returned" /\ plog[1].ok = {1, 2, 3, 4}
    /\ store[1].diffs[2].st = "file" /\ store[1].diffs[4].st = "file"
    /\ plog[2].found = "no" /\ plog[2].st = "returned" /\ ~store[2].dir

====
